---- MODULE Spec2Model ----
(***************************************************************************)
(* RommSync: the local reconciliation engine.                              *)
(*   database.py     the Hash Index (tables local_roms and scan_history)   *)
(*   hash_scanner.py the Content Scanner (scan_platform)                   *)
(*   main.py         the request handlers and the background scan task     *)
(***************************************************************************)
EXTENDS Naturals, Sequences, FiniteSets, TLC

(***************************************************************************)
(* Bounds of the model.                                                    *)
(***************************************************************************)
\* POST /api/scan requests accepted in one run
MaxScans == 2
\* changes of the ROM directory tree made from outside in one run
MaxFsChanges == 1
\* remote entries in one batch listing
MaxBatch == 1
\* entries of a listing that may hold malformed entries
MaxListing == 3
\* bytes of a file whose digests are computed
MaxBytes == 3
\* seconds the clock advances in one run
MaxClock == 1

\* the worker threads that run do_scan; two are enough for every way in
\* which one scan can overlap another
Tasks == {1, 2}

(***************************************************************************)
(* The ROM directory tree.  A file is named by its path below the library  *)
(* root; fs[p] is Absent or the SHA-1 digest of the bytes stored at p.     *)
(***************************************************************************)
Absent == "absent"
\* a file that is there and can be stat-ed, but cannot be opened for reading
Unreadable == "unreadable"
\* a file whose directory lists it but refuses stat (EACCES)
Unstatable == "unstatable"
Digests == {"d1", "d2"}

Paths == {"psx/a.bin", "psx/sub/a.bin", "ps2/a.bin", "ps2/A.BIN"}

\* Path.name: the last component of the path
NameOf(p) ==
    CASE p = "psx/a.bin" -> "a.bin"
      [] p = "psx/sub/a.bin" -> "a.bin"
      [] p = "ps2/a.bin" -> "a.bin"
      [] p = "ps2/A.BIN" -> "A.BIN"
      [] p = "psx/sub/n.txt" -> "n.txt"
      [] p = "megadrive/g.smd" -> "g.smd"

\* the suffix of the file name, letter case kept
SuffixOf(p) ==
    CASE p = "psx/a.bin" -> ".bin"
      [] p = "psx/sub/a.bin" -> ".bin"
      [] p = "ps2/a.bin" -> ".bin"
      [] p = "ps2/A.BIN" -> ".BIN"
      [] p = "psx/sub/n.txt" -> ".txt"
      [] p = "megadrive/g.smd" -> ".smd"

\* the directories (relative to the library root) a file lies below
DirsAbove(p) ==
    CASE p = "psx/a.bin" -> {"psx"}
      [] p = "psx/sub/a.bin" -> {"psx", "psx/sub"}
      [] p = "ps2/a.bin" -> {"ps2"}
      [] p = "ps2/A.BIN" -> {"ps2"}
      [] p = "psx/sub/n.txt" -> {"psx", "psx/sub"}
      [] p = "megadrive/g.smd" -> {"megadrive"}

\* the digests the model lets a file hold
ContentsOf(p) ==
    CASE p = "psx/sub/a.bin" -> Digests
      [] p = "ps2/A.BIN" -> {"d2"}
      [] OTHER -> {"d1"}

\* the tree at start-up: every file of the model is there
InitialFs ==
    [p \in Paths |-> IF p \in {"psx/sub/a.bin", "ps2/A.BIN"} THEN "d2" ELSE "d1"]

\* the order in which a recursive walk meets the files: a directory's own
\* files before those of its sub-directories
WalkOrder ==
    <<"psx/a.bin", "psx/sub/a.bin", "psx/sub/n.txt", "ps2/a.bin", "ps2/A.BIN",
      "megadrive/g.smd">>

\* str.lower() on the platform keys and suffixes of the model
Lower(s) ==
    CASE s = "PSX" -> "psx" [] s = "PS2" -> "ps2" [] s = ".BIN" -> ".bin"
      [] OTHER -> s

\* platform keys a scan request may name
PlatformKeys == {"psx", "ps2", "psx/sub"}

(***************************************************************************)
(* Content Scanner (hash_scanner.py).                                      *)
(***************************************************************************)
\* a table whose rows name one pattern twice
RepeatedExtensions(key) == <<".bin", ".bin">>

\* RomScanner.ROM_EXTENSIONS, the rows of the table the model's keys reach
ROM_EXTENSIONS(key) ==
    CASE key = "psx" -> <<".bin", ".cue", ".chd", ".pbp", ".iso">>
      [] key = "ps2" -> <<".iso", ".bin", ".chd">>
      [] key = "megadrive" -> <<".md", ".smd", ".gen", ".bin">>
      [] OTHER -> <<>>

\* patterns without the wildcard for unknown keys
KnownExtensionsOnly(platform) == ROM_EXTENSIONS(Lower(platform))

\* valid_extensions: the table row of platform.lower(), or ['.*'] when the
\* key is unknown
ValidExtensions(platform) ==
    LET known == ROM_EXTENSIONS(Lower(platform))
    IN  IF known = <<>> THEN <<".*">> ELSE known

\* platform_path.exists(): the directory is there when a file lies below it
\* (an empty directory and a missing one both scan to the empty list)
PlatformDirExists(f, platform) ==
    \E p \in DOMAIN f : f[p] # Absent /\ platform \in DirsAbove(p)

\* platform_path.rglob('*' + ext), or rglob('*') for '.*': the files below
\* the platform directory whose name ends in ext, letter case significant
RGlob(f, platform, ext) ==
    SelectSeq(WalkOrder, LAMBDA p :
        /\ p \in DOMAIN f
        /\ f[p] # Absent
        /\ platform \in DirsAbove(p)
        /\ (ext = ".*" \/ SuffixOf(p) = ext))

RECURSIVE RomFiles(_, _, _)
\* rom_files: the matches of each extension pattern, one pattern after
\* another (rom_files.extend per pattern)
RomFiles(f, platform, exts) ==
    IF exts = <<>> THEN <<>>
    ELSE RGlob(f, platform, Head(exts)) \o RomFiles(f, platform, Tail(exts))

\* the dictionary scan_platform appends for one hashed file (file_size,
\* md5_hash, crc_hash and last_modified are functions of the same bytes and
\* are left out)
RomInfo(f, platform, p) ==
    [platform |-> platform, file_name |-> NameOf(p), file_path |-> p,
     sha1_hash |-> f[p]]

RECURSIVE HashAll(_, _, _)
\* the loop over rom_files: a file whose stat() raises, or whose hashes come
\* back None because it cannot be opened, is passed over (continue)
HashAll(f, platform, files) ==
    IF files = <<>> THEN <<>>
    ELSE (IF f[Head(files)] \in {Unreadable, Unstatable} THEN <<>>
          ELSE <<RomInfo(f, platform, Head(files))>>)
         \o HashAll(f, platform, Tail(files))

\* a scanner that raises when the platform directory is missing
RaisesWhenAbsent(f, platform) == ~PlatformDirExists(f, platform)

\* f.is_file() in the filter over rom_files, outside every try: Path.is_file
\* swallows ENOENT, ENOTDIR, EBADF and ELOOP only, so a candidate whose stat
\* is refused makes the call raise
ScanRaises(f, platform) ==
    /\ PlatformDirExists(f, platform)
    /\ LET rom_files == RomFiles(f, platform, ValidExtensions(platform))
       IN  \E i \in 1 .. Len(rom_files) : f[rom_files[i]] = Unstatable

\* RomScanner.scan_platform
scan_platform(f, platform) ==
    IF ~PlatformDirExists(f, platform) THEN <<>>
    ELSE HashAll(f, platform, RomFiles(f, platform, ValidExtensions(platform)))

\* a quick scan that reports whatever lies at the path
QuickScanBlind(f, p) ==
    [file_name |-> NameOf(p), file_path |-> p, sha1_hash |-> f[p]]

\* RomScanner.quick_scan_file: None when the file is missing or cannot be
\* hashed, else its name, path and digest (no platform)
quick_scan_file(f, p) ==
    IF f[p] \in {Absent, Unreadable} THEN [file_path |-> "None"]
    ELSE [file_name |-> NameOf(p), file_path |-> p, sha1_hash |-> f[p]]

\* file_path.exists() in quick_scan_file, outside its try: Path.exists
\* re-raises the refusal of stat
QuickScanRaises(f, p) == f[p] = Unstatable

\* a statistics call that counts every file below the directory
StatsOfAllFiles(f, platform) ==
    [exists |-> PlatformDirExists(f, platform),
     file_count |-> Len(RGlob(f, platform, ".*"))]

\* RomScanner.get_platform_stats: exists and file_count (the sizes are left
\* out); ROM_EXTENSIONS.get(platform.lower(), ['.*']) picks the patterns
get_platform_stats(f, platform) ==
    IF ~PlatformDirExists(f, platform)
    THEN [exists |-> FALSE, file_count |-> 0]
    ELSE LET known == ROM_EXTENSIONS(Lower(platform))
             valid_extensions == IF known = <<>> THEN <<".*">> ELSE known
         IN  [exists |-> TRUE,
              file_count |-> Len(RomFiles(f, platform, valid_extensions))]

\* get_platform_stats raises where scan_platform does: the same is_file
\* filter over the same candidates
StatsRaises(f, platform) ==
    /\ PlatformDirExists(f, platform)
    /\ LET known == ROM_EXTENSIONS(Lower(platform))
           rom_files == RomFiles(f, platform,
                                 IF known = <<>> THEN <<".*">> ELSE known)
       IN  \E i \in 1 .. Len(rom_files) : f[rom_files[i]] = Unstatable

(***************************************************************************)
(* RomScanner._calculate_file_hashes.  A file is a sequence of bytes; the  *)
(* loop feeds every chunk f.read(8192) returns to the three digests.       *)
(* The CRC is zlib's CRC-32, computed on words of 32 bits (bit 1 the least *)
(* significant).  hashlib's SHA-1 and MD5 are modelled by their structure: *)
(* a chaining value, a buffer of the bytes that do not yet fill a block,   *)
(* the length fed so far, and a final padded block; the compression        *)
(* function is a small stand-in.                                           *)
(***************************************************************************)
\* the size asked of every read
ReadSize == 8192

Word32 == 1 .. 32

Xor(a, b) == [i \in Word32 |-> (a[i] + b[i]) % 2]

ShiftRight1(a) == [i \in Word32 |-> IF i = 32 THEN 0 ELSE a[i + 1]]

\* the word written as eight hexadecimal digits, most significant first
WordOfHex(nibbles) ==
    [i \in Word32 |->
        (nibbles[8 - ((i - 1) \div 4)] \div (2 ^ ((i - 1) % 4))) % 2]

WordOfByte(b) == [i \in Word32 |-> IF i <= 8 THEN (b \div (2 ^ (i - 1))) % 2 ELSE 0]

ZeroWord == [i \in Word32 |-> 0]
AllOnes == [i \in Word32 |-> 1]

\* the reflected CRC-32 polynomial 0xEDB88320
CrcPoly == WordOfHex(<<14, 13, 11, 8, 8, 3, 2, 0>>)

RECURSIVE CrcShift(_, _)
\* n steps of the bitwise CRC division
CrcShift(c, n) ==
    IF n = 0 THEN c
    ELSE CrcShift(IF c[1] = 1 THEN Xor(ShiftRight1(c), CrcPoly)
                  ELSE ShiftRight1(c), n - 1)

RECURSIVE CrcBytes(_, _)
CrcBytes(c, data) ==
    IF data = <<>> THEN c
    ELSE CrcBytes(CrcShift(Xor(c, WordOfByte(Head(data))), 8), Tail(data))

\* the checksum of the chunk alone, the running value dropped
CrcOfChunk(data, crc) == Xor(CrcBytes(AllOnes, data), AllOnes)

\* zlib.crc32(data, crc): the running checksum crc carried over data
crc32(data, crc) == Xor(CrcBytes(Xor(crc, AllOnes), data), AllOnes)

HexDigits ==
    <<"0", "1", "2", "3", "4", "5", "6", "7", "8", "9", "a", "b", "c", "d",
      "e", "f">>

\* format(crc & 0xFFFFFFFF, '08x'): eight lower-case hexadecimal digits
Format08x(c) ==
    [k \in 1 .. 8 |->
        LET low == 4 * (8 - k)
        IN  HexDigits[1 + c[low + 1] + 2 * c[low + 2] + 4 * c[low + 3]
                        + 8 * c[low + 4]]]

\* the block size and the modulus of the stand-in compression function
BlockSize == 2
DigestModulus == 65521

\* hashlib.sha1() and hashlib.md5(): a new digest object; the two
\* algorithms differ in their initial value and their multiplier
HashNew(iv) == [h |-> iv, buf |-> <<>>, n |-> 0]

Compress(h, block, mult) ==
    (h * mult + 7 * block[1] + 3 * block[2] + 1) % DigestModulus

RECURSIVE Absorb(_, _, _)
\* the full blocks of buf are compressed, the rest stays buffered
Absorb(h, buf, mult) ==
    IF Len(buf) < BlockSize THEN [h |-> h, buf |-> buf]
    ELSE Absorb(Compress(h, SubSeq(buf, 1, BlockSize), mult),
                SubSeq(buf, BlockSize + 1, Len(buf)), mult)

\* digest.update(chunk)
HashUpdate(st, chunk, mult) ==
    LET a == Absorb(st.h, st.buf \o chunk, mult)
    IN  [h |-> a.h, buf |-> a.buf, n |-> st.n + Len(chunk)]

\* digest.hexdigest(): the buffered bytes, a padding byte and the length
\* make the last blocks
HashDigest(st, mult) ==
    LET tail == st.buf \o <<128>>
        padded == IF Len(tail) % BlockSize = 0 THEN tail ELSE tail \o <<0>>
    IN  Absorb(st.h, padded \o <<st.n % 256, st.n \div 256>>, mult).h

Sha1Iv == 4321
Sha1Mult == 31
Md5Iv == 1234
Md5Mult == 37

RECURSIVE FeedChunks(_, _)
\* while chunk := f.read(8192): sha1.update(chunk); md5.update(chunk);
\* crc = zlib.crc32(chunk, crc)
FeedChunks(st, chunks) ==
    IF chunks = <<>> THEN st
    ELSE FeedChunks([sha1 |-> HashUpdate(st.sha1, Head(chunks), Sha1Mult),
                     md5 |-> HashUpdate(st.md5, Head(chunks), Md5Mult),
                     crc |-> crc32(Head(chunks), st.crc)],
                    Tail(chunks))

\* RomScanner._calculate_file_hashes on a file that is read as the given
\* chunks
calculate_file_hashes(chunks) ==
    LET st == FeedChunks([sha1 |-> HashNew(Sha1Iv), md5 |-> HashNew(Md5Iv),
                          crc |-> ZeroWord], chunks)
    IN  [sha1 |-> HashDigest(st.sha1, Sha1Mult),
         md5 |-> HashDigest(st.md5, Md5Mult),
         crc |-> Format08x(st.crc)]

(***************************************************************************)
(* Hash Index (database.py).  A table is the sequence of its rows in rowid *)
(* order: AUTOINCREMENT gives every inserted row an id above all earlier   *)
(* ones, so an insert appends.                                             *)
(***************************************************************************)
\* the absent result of a lookup (Python's None)
None == [file_path |-> "None"]

\* INSERT ... INTO local_roms without conflict handling: the row is added
\* whatever the table holds
InsertPlain(tbl, row) == Append(tbl, row)

\* INSERT OR REPLACE INTO local_roms: file_path is UNIQUE, so the row that
\* holds the path is deleted and the new row is inserted with a fresh id
InsertOrReplace(tbl, row) ==
    Append(SelectSeq(tbl, LAMBDA r : r.file_path # row.file_path), row)

\* Database.add_local_rom
add_local_rom(tbl, rom_info) == InsertOrReplace(tbl, rom_info)

\* where a storage error (sqlite3.Error) can strike add_local_rom: in
\* cursor.execute, before the statement has changed anything, or in
\* conn.commit, after it
StorageFaults == {"execute", "commit"}

\* add_local_rom when sqlite3 raises: the method logs, returns None and
\* neither commits nor rolls back.  The table is given as the connection
\* sees it from then on: an error in commit leaves the executed statement
\* in the open transaction, where every later read of the connection finds
\* it and the next commit makes it durable
add_local_rom_failing(tbl, rom_info, at) ==
    IF at = "execute" THEN tbl ELSE InsertOrReplace(tbl, rom_info)

\* a lookup that takes the row inserted last among those holding the hash
LastByHash(tbl, sha1_hash) ==
    LET hit == SelectSeq(tbl, LAMBDA r : r.sha1_hash = sha1_hash)
    IN  IF hit = <<>> THEN None ELSE hit[Len(hit)]

\* Database.get_local_rom_by_hash: SELECT * ... WHERE sha1_hash = ? and
\* fetchone(): the search runs on idx_sha1, whose equal keys are in rowid
\* order, so the row of lowest id with that hash
get_local_rom_by_hash(tbl, sha1_hash) ==
    LET hit == SelectSeq(tbl, LAMBDA r : r.sha1_hash = sha1_hash)
    IN  IF hit = <<>> THEN None ELSE Head(hit)

\* the rank of a file name in SQLite's BINARY collation (upper case first)
NameRank(n) == CASE n = "A.BIN" -> 1 [] n = "a.bin" -> 2 [] OTHER -> 3

RECURSIVE InsertByName(_, _)
\* puts row r after the rows of s that do not sort after it (a stable sort)
InsertByName(s, r) ==
    IF s = <<>> THEN <<r>>
    ELSE IF NameRank(Head(s).file_name) <= NameRank(r.file_name)
         THEN <<Head(s)>> \o InsertByName(Tail(s), r)
         ELSE <<r>> \o s

RECURSIVE OrderByFileName(_)
\* ORDER BY file_name: rows of equal name stay in rowid order
OrderByFileName(s) ==
    IF s = <<>> THEN <<>>
    ELSE InsertByName(OrderByFileName(SubSeq(s, 1, Len(s) - 1)), s[Len(s)])

\* a listing that leaves out WHERE platform = ?
AllRowsByName(tbl, platform) == OrderByFileName(tbl)

\* Database.get_local_roms_by_platform
get_local_roms_by_platform(tbl, platform) ==
    OrderByFileName(SelectSeq(tbl, LAMBDA r : r.platform = platform))

\* Database.delete_local_rom
delete_local_rom(tbl, file_path) ==
    SelectSeq(tbl, LAMBDA r : r.file_path # file_path)

\* a clear that deletes nothing
ClearNothing(tbl, platform) == tbl

\* a clear that deletes one row only, the first of the platform
ClearFirstOnly(tbl, platform) ==
    LET hit == {i \in 1 .. Len(tbl) : tbl[i].platform = platform}
    IN  IF hit = {} THEN tbl
        ELSE LET first == CHOOSE i \in hit : \A j \in hit : i <= j
             IN  SubSeq(tbl, 1, first - 1) \o SubSeq(tbl, first + 1, Len(tbl))

\* Database.clear_platform
clear_platform(tbl, platform) ==
    SelectSeq(tbl, LAMBDA r : r.platform # platform)

\* a recorder that keeps one row per platform: the platform's earlier event
\* is replaced
RecordLatestOnly(hist, platform, files_scanned, scanned_at) ==
    Append(SelectSeq(hist, LAMBDA e : e.platform # platform),
           [platform |-> platform, files_scanned |-> files_scanned,
            scanned_at |-> scanned_at])

\* Database.add_scan_record: scanned_at is the column's default,
\* CURRENT_TIMESTAMP, the clock in whole seconds (duration_seconds is left
\* out)
add_scan_record(hist, platform, files_scanned, scanned_at) ==
    Append(hist, [platform |-> platform, files_scanned |-> files_scanned,
                  scanned_at |-> scanned_at])

\* COUNT(*) of the rows of one platform (a row of by_platform in
\* Database.get_scan_stats)
PlatformCount(tbl, platform) ==
    Len(SelectSeq(tbl, LAMBDA r : r.platform = platform))

\* the platforms that have rows in the table
PlatformsOf(tbl) == {tbl[i].platform : i \in 1 .. Len(tbl)}

\* SELECT * FROM scan_history ORDER BY scanned_at DESC LIMIT 1: the table
\* has no index on scanned_at, the rows are read in rowid order and the one
\* kept is the first that no other row beats, so among the events of the
\* latest second the one inserted first
LatestByTimestamp(hist) ==
    LET top == {i \in 1 .. Len(hist) :
                   \A j \in 1 .. Len(hist) :
                       hist[j].scanned_at <= hist[i].scanned_at}
    IN  hist[CHOOSE i \in top : \A j \in top : i <= j]

\* statistics that are refused while the flag is set
StatsWhenIdle(tbl, hist, flag) ==
    IF flag THEN [in_progress |-> TRUE, stats |-> [total_roms |-> 0,
                                                    by_platform |-> {},
                                                    last_scan |-> None]]
    ELSE [in_progress |-> FALSE,
          stats |-> [total_roms |-> Len(tbl),
                     by_platform |-> {[platform |-> k,
                                       count |-> PlatformCount(tbl, k)] :
                                         k \in PlatformsOf(tbl)},
                     last_scan |-> IF hist = <<>> THEN None
                                   ELSE LatestByTimestamp(hist)]]

\* Database.get_scan_stats: total_roms, by_platform (the rows of the GROUP
\* BY, their order left out) and last_scan, None when there is no event
get_scan_stats(tbl, hist) ==
    [total_roms |-> Len(tbl),
     by_platform |-> {[platform |-> k, count |-> PlatformCount(tbl, k)] :
                         k \in PlatformsOf(tbl)},
     last_scan |-> IF hist = <<>> THEN None ELSE LatestByTimestamp(hist)]

\* GET /api/scan/status: the flag as it is, and the statistics
get_scan_status(tbl, hist, flag) ==
    [in_progress |-> flag, stats |-> get_scan_stats(tbl, hist)]

\* GET /api/stats: the local statistics (the remote part is the catalog's)
get_stats(tbl, hist) == [local |-> get_scan_stats(tbl, hist)]

(***************************************************************************)
(* Remote catalog entries and the configuration (main.py).                 *)
(***************************************************************************)
\* a missing or empty value of a remote field (None, '')
NoValue == ""
NoPath == "None"

FileNames == {"a.bin", "A.BIN"}
PlatformNames == {"Sony - PlayStation", "Sony - PlayStation 2", "Other"}

\* config['platform_mapping'].get(name): the local folder of a remote
\* platform name, NoValue when the configuration maps nothing to it
platform_mapping(name) ==
    CASE name = "Sony - PlayStation" -> "psx"
      [] name = "Sony - PlayStation 2" -> "ps2"
      [] OTHER -> NoValue

\* a remote entry as the handlers read it: whether rom['files'] is there and
\* non-empty, the sha1_hash and file_name of rom['files'][0], and
\* rom['platform_display_name'] or rom['platform_slug']
RemoteRoms ==
    [has_files : {TRUE}, sha1_hash : Digests \cup {NoValue},
     file_name : FileNames \cup {NoValue}, platform_name : PlatformNames]
    \cup [has_files : {FALSE}, sha1_hash : {NoValue}, file_name : {NoValue},
          platform_name : PlatformNames]

\* the entries of a batch listing (get_platform_roms reads no platform field
\* of an entry); the hash they declare, if any, is d2, the digest that two
\* files of the model can hold
BatchRoms == {r \in RemoteRoms : r.platform_name = "Other" /\ r.sha1_hash # "d1"}

Batches == UNION {[1 .. n -> BatchRoms] : n \in 1 .. MaxBatch}

\* the for loop of get_rom_details: the first listed row of that file name
FirstNamed(rows, file_name) ==
    LET hit == SelectSeq(rows, LAMBDA r : r.file_name = file_name)
    IN  IF hit = <<>> THEN None ELSE Head(hit)

\* {rom['file_name']: rom for rom in local_roms}[file_name]: a later row
\* overwrites an earlier one of the same name
LastNamed(rows, file_name) ==
    LET hit == SelectSeq(rows, LAMBDA r : r.file_name = file_name)
    IN  IF hit = <<>> THEN None ELSE hit[Len(hit)]

\* the fields a handler sets on the entry it returns
Annotated(local_rom) ==
    [has_local_available |-> TRUE,
     local_available |-> local_rom # None,
     local_path |-> IF local_rom # None THEN local_rom.file_path ELSE NoPath]

NotAnnotated ==
    [has_local_available |-> FALSE, local_available |-> FALSE,
     local_path |-> NoPath]

\* the file name is looked up before the hash
DetailsNameFirst(tbl, rom) ==
    IF rom.has_files
    THEN LET retrodeck_folder == platform_mapping(rom.platform_name)
             by_name == IF rom.file_name # NoValue /\ retrodeck_folder # NoValue
                        THEN FirstNamed(get_local_roms_by_platform(
                                            tbl, retrodeck_folder), rom.file_name)
                        ELSE None
             by_hash == IF by_name = None /\ rom.sha1_hash # NoValue
                        THEN get_local_rom_by_hash(tbl, rom.sha1_hash)
                        ELSE None
         IN  Annotated(IF by_name # None THEN by_name ELSE by_hash)
    ELSE NotAnnotated

\* GET /api/roms/{rom_id}: what get_rom_details adds to the entry
get_rom_details(tbl, rom) ==
    IF rom.has_files
    THEN LET by_hash == IF rom.sha1_hash # NoValue
                        THEN get_local_rom_by_hash(tbl, rom.sha1_hash)
                        ELSE None
             retrodeck_folder == platform_mapping(rom.platform_name)
             by_name == IF /\ by_hash = None
                           /\ rom.file_name # NoValue
                           /\ rom.platform_name # NoValue
                           /\ retrodeck_folder # NoValue
                        THEN FirstNamed(get_local_roms_by_platform(
                                            tbl, retrodeck_folder), rom.file_name)
                        ELSE None
         IN  Annotated(IF by_hash # None THEN by_hash ELSE by_name)
    ELSE NotAnnotated

\* rom.get('id'), NoValue for an entry that carries none
RomId(rom) == IF "id" \in DOMAIN rom THEN rom.id ELSE NoValue

\* an entry the loop of get_platform_roms cannot handle: it is not a dict,
\* or it is a dict whose 'files' is not a list of dicts (len() or .get()
\* raises)
IsMalformed(rom) == "malformed" \in DOMAIN rom

\* one pass of the loop of get_platform_roms over an entry of the listing
EnhanceRom(tbl, local_roms_of_folder, rom) ==
    IF rom.has_files
    THEN LET by_hash == IF rom.sha1_hash # NoValue
                        THEN get_local_rom_by_hash(tbl, rom.sha1_hash)
                        ELSE None
             by_name == IF by_hash = None /\ rom.file_name # NoValue
                        THEN LastNamed(local_roms_of_folder, rom.file_name)
                        ELSE None
         IN  Annotated(IF by_hash # None THEN by_hash ELSE by_name)
                @@ [id |-> RomId(rom)]
    ELSE [has_local_available |-> TRUE, local_available |-> FALSE,
          local_path |-> NoPath, id |-> RomId(rom)]

\* a listing answered with nothing as soon as one entry is malformed
AbortOnMalformed(tbl, platform_name, roms) ==
    IF \E i \in 1 .. Len(roms) : IsMalformed(roms[i]) THEN <<>>
    ELSE [i \in 1 .. Len(roms) |->
             EnhanceRom(tbl, get_local_roms_by_platform(
                                 tbl, platform_mapping(platform_name)), roms[i])]

RECURSIVE EnhanceAll(_, _, _)
\* the loop of get_platform_roms: an entry that is not a dict, or whose
\* handling raises, is logged and passed over (continue); the others are
\* appended to enhanced_roms in the order of the listing
EnhanceAll(tbl, local_roms_of_folder, roms) ==
    IF roms = <<>> THEN <<>>
    ELSE (IF IsMalformed(Head(roms)) THEN <<>>
          ELSE <<EnhanceRom(tbl, local_roms_of_folder, Head(roms))>>)
         \o EnhanceAll(tbl, local_roms_of_folder, Tail(roms))

\* GET /api/platforms/{platform_id}/roms: the annotated listing;
\* platform_name is platform_info.get('name') of the platform asked for
get_platform_roms(tbl, platform_name, roms) ==
    LET retrodeck_folder == IF platform_name # NoValue
                            THEN platform_mapping(platform_name) ELSE NoValue
        local_roms_of_folder == IF retrodeck_folder # NoValue
                                THEN get_local_roms_by_platform(tbl, retrodeck_folder)
                                ELSE <<>>
    IN  EnhanceAll(tbl, local_roms_of_folder, roms)

(***************************************************************************)
(* State.                                                                  *)
(***************************************************************************)
VARIABLES
    local_roms,        \* table local_roms, rows in rowid order
    scan_history,      \* table scan_history, rows in rowid order
    scan_in_progress,  \* the global flag of main.py
    fs,                \* the ROM directory tree
    task,              \* the background do_scan tasks, one per accepted request
    resp,              \* the last call answered: its arguments and its result
    fs_changes,        \* how many times the directory tree was changed
    accepted,          \* how many scan requests were accepted
    prev,              \* per platform, the rows its last undisturbed scan left
    now,               \* the wall clock, in whole seconds (CURRENT_TIMESTAMP)
    download           \* the background do_download task

vars == <<local_roms, scan_history, scan_in_progress, fs, task, resp,
          fs_changes, accepted, prev, now, download>>

\* the platform lists of the scan requests of the model
ScanRequests == {<<"psx">>, <<"ps2">>, <<"psx/sub">>}

IdleTask ==
    [pc |-> "idle", platforms |-> <<>>, results |-> <<>>, done |-> 0,
     clean |-> FALSE, gen |-> 0]

NoSnapshot == [valid |-> FALSE, gen |-> 0, recs |-> {}]

\* no download is under way
IdleDownload == [pc |-> "idle"]

\* the rows of one platform, as a set
RowsOf(tbl, platform) ==
    {tbl[i] : i \in {j \in 1 .. Len(tbl) : tbl[j].platform = platform}}

\* the database file outlives the process: at start-up it is new, or holds
\* what an earlier run left after it scanned psx
PersistedDbs ==
    {[local_roms |-> <<>>, scan_history |-> <<>>],
     [local_roms |-> scan_platform(InitialFs, "psx"),
      scan_history |-> <<[platform |-> "psx", files_scanned |-> 2,
                          scanned_at |-> 0]>>]}

\* lifespan(): the database is opened, no scan is running
Init ==
    /\ \E d \in PersistedDbs :
          /\ local_roms = d.local_roms
          /\ scan_history = d.scan_history
    /\ scan_in_progress = FALSE
    /\ fs = InitialFs
    /\ task = [t \in Tasks |-> IdleTask]
    /\ resp = [op |-> "none"]
    /\ fs_changes = 0
    /\ accepted = 0
    /\ prev = [k \in PlatformKeys |-> NoSnapshot]
    /\ now = 0
    /\ download = IdleDownload

(***************************************************************************)
(* The environment: a file is written, replaced or removed.                *)
(***************************************************************************)
FsChange(p, c) ==
    /\ fs_changes < MaxFsChanges
    /\ c # fs[p]
    /\ fs' = [fs EXCEPT ![p] = c]
    /\ fs_changes' = fs_changes + 1
    /\ UNCHANGED <<local_roms, scan_history, scan_in_progress, task, resp, accepted, prev,
                   now, download>>

(***************************************************************************)
(* POST /api/scan and its background task (main.py, scan_local_roms).      *)
(***************************************************************************)
\* an accepted scan that has not ended: queued as a background task or
\* executing do_scan
Unfinished(t) == task[t].pc # "idle"

\* do_scan is executing: from its first statement to the end of finally
Executing(t) == task[t].pc \in {"clear", "scan", "ingest", "finally"}

\* a write of task u to local_roms lands inside the scan of a platform that
\* another task has cleared and not yet recorded
Disturb(tk, u) ==
    [t \in Tasks |->
        IF t # u /\ tk[t].pc \in {"scan", "ingest"}
        THEN [tk[t] EXCEPT !.clean = FALSE] ELSE tk[t]]

\* the handler accepts: the flag is false; do_scan is added as a background
\* task and the flag is left as it is
Accept(platforms) ==
    /\ ~scan_in_progress
    /\ accepted < MaxScans
    /\ accepted' = accepted + 1
    /\ \E t \in Tasks :
        /\ task[t].pc = "idle"
        /\ \A u \in Tasks : u < t => task[u].pc # "idle"
        /\ task' = [task EXCEPT ![t] = [IdleTask EXCEPT !.pc = "queued",
                                                        !.platforms = platforms]]
    /\ resp' = [op |-> "scan_local_roms", status |-> 200,
                pending |-> \E u \in Tasks : Unfinished(u)]
    /\ UNCHANGED <<local_roms, scan_history, scan_in_progress, fs, fs_changes, prev,
                   now, download>>

\* the handler rejects: HTTP 409, nothing is scheduled
Reject(platforms) ==
    /\ scan_in_progress
    /\ resp' = [op |-> "scan_local_roms", status |-> 409,
                pending |-> \E u \in Tasks : Unfinished(u)]
    /\ UNCHANGED <<local_roms, scan_history, scan_in_progress, fs, task,
                   fs_changes, accepted, prev, now, download>>

\* scan_local_roms
ScanLocalRoms(platforms) == Accept(platforms) \/ Reject(platforms)

\* do_scan begins: scan_in_progress = True
DoScanStart(t) ==
    /\ task[t].pc = "queued"
    /\ scan_in_progress' = TRUE
    /\ task' = [task EXCEPT ![t].pc =
                    IF task[t].platforms = <<>> THEN "finally" ELSE "clear"]
    /\ UNCHANGED <<local_roms, scan_history, fs, resp, fs_changes, accepted, prev,
                   now, download>>

\* db.clear_platform(platform)
DoScanClear(t) ==
    /\ task[t].pc = "clear"
    /\ local_roms' = clear_platform(local_roms, Head(task[t].platforms))
    /\ task' = [Disturb(task, t) EXCEPT ![t].pc = "scan", ![t].clean = TRUE]
    /\ UNCHANGED <<scan_history, scan_in_progress, fs, resp, fs_changes, accepted, prev,
                   now, download>>

\* results = scanner.scan_platform(platform); when the call raises, control
\* leaves the loop over the platforms for the except clause, which logs, and
\* then finally
DoScanScan(t) ==
    /\ task[t].pc = "scan"
    /\ task' = IF ScanRaises(fs, Head(task[t].platforms))
               THEN [task EXCEPT ![t].pc = "finally", ![t].clean = FALSE]
               ELSE [task EXCEPT ![t].pc = "ingest",
                            ![t].results = scan_platform(fs, Head(task[t].platforms)),
                            ![t].done = 0,
                            ![t].gen = fs_changes]
    /\ UNCHANGED <<local_roms, scan_history, scan_in_progress, fs, resp,
                   fs_changes, accepted, prev, now, download>>

\* one pass of: for rom_info in results: db.add_local_rom(**rom_info)
DoScanIngest(t) ==
    /\ task[t].pc = "ingest"
    /\ task[t].done < Len(task[t].results)
    /\ local_roms' = add_local_rom(local_roms, task[t].results[task[t].done + 1])
    /\ task' = [Disturb(task, t) EXCEPT ![t].done = task[t].done + 1]
    /\ UNCHANGED <<scan_history, scan_in_progress, fs, resp, fs_changes, accepted, prev,
                   now, download>>

\* the event is recorded while records are still to be ingested
IngestUnderWay(t) == task[t].pc = "ingest"

\* the loop over results has ended
Ingested(t) == task[t].pc = "ingest" /\ task[t].done = Len(task[t].results)

\* db.add_scan_record(platform, len(results), duration), then the next
\* platform of the request
DoScanRecord(t) ==
    /\ Ingested(t)
    /\ LET platform == Head(task[t].platforms)
           rest == Tail(task[t].platforms)
       IN  /\ scan_history' = add_scan_record(scan_history, platform,
                                              Len(task[t].results), now)
           /\ prev' = [prev EXCEPT ![platform] =
                          IF task[t].clean
                          THEN [valid |-> TRUE, gen |-> task[t].gen,
                                recs |-> RowsOf(local_roms, platform)]
                          ELSE NoSnapshot]
           /\ task' = [task EXCEPT ![t] =
                          [IdleTask EXCEPT !.pc = IF rest = <<>> THEN "finally"
                                                  ELSE "clear",
                                           !.platforms = rest]]
    /\ UNCHANGED <<local_roms, scan_in_progress, fs, resp, fs_changes, accepted,
                   now, download>>

\* finally: scan_in_progress = False
DoScanFinally(t) ==
    /\ task[t].pc = "finally"
    /\ scan_in_progress' = FALSE
    /\ task' = [task EXCEPT ![t] = IdleTask]
    /\ UNCHANGED <<local_roms, scan_history, fs, resp, fs_changes, accepted, prev,
                   now, download>>

Next ==
    \/ \E p \in Paths : \E c \in ContentsOf(p) \cup {Absent} : FsChange(p, c)
    \/ \E platforms \in ScanRequests : ScanLocalRoms(platforms)
    \/ \E t \in Tasks : DoScanStart(t)
    \/ \E t \in Tasks : DoScanClear(t)
    \/ \E t \in Tasks : DoScanScan(t)
    \/ \E t \in Tasks : DoScanIngest(t)
    \/ \E t \in Tasks : DoScanRecord(t)
    \/ \E t \in Tasks : DoScanFinally(t)

Spec == Init /\ [][Next]_vars

(***************************************************************************)
(* Scan requests that name several platforms.                              *)
(***************************************************************************)
\* platform lists of two keys: one whose directory the library lacks, two
\* known platforms, and a key whose directory lies below another's
MultiRequests == {<<"PS2", "psx">>, <<"psx", "ps2">>, <<"psx/sub", "psx">>}

NextMulti ==
    \/ \E platforms \in MultiRequests : ScanLocalRoms(platforms)
    \/ \E t \in Tasks : DoScanStart(t)
    \/ \E t \in Tasks : DoScanClear(t)
    \/ \E t \in Tasks : DoScanScan(t)
    \/ \E t \in Tasks : DoScanIngest(t)
    \/ \E t \in Tasks : DoScanRecord(t)
    \/ \E t \in Tasks : DoScanFinally(t)

SpecMulti == Init /\ [][NextMulti]_vars

(***************************************************************************)
(* Scans during which the storage layer may fail.                          *)
(***************************************************************************)
FaultRequests == {<<"psx">>, <<"ps2">>}

\* one pass of the ingest loop in which add_local_rom meets a storage error
\* and returns None; the loop goes on with the next record
DoScanIngestFault(t, at) ==
    /\ task[t].pc = "ingest"
    /\ task[t].done < Len(task[t].results)
    /\ local_roms' = add_local_rom_failing(local_roms,
                                           task[t].results[task[t].done + 1], at)
    /\ task' = [Disturb(task, t) EXCEPT ![t].done = task[t].done + 1,
                                        ![t].clean = FALSE]
    /\ resp' = [op |-> "add_local_rom", returned |-> None, at |-> at,
                row |-> task[t].results[task[t].done + 1],
                before |-> local_roms, after |-> local_roms',
                pc_after |-> task'[t].pc,
                left |-> Len(task[t].results) - task'[t].done]
    /\ UNCHANGED <<scan_history, scan_in_progress, fs, fs_changes, accepted, prev,
                   now, download>>

NextFault ==
    \/ \E platforms \in FaultRequests : ScanLocalRoms(platforms)
    \/ \E t \in Tasks : DoScanStart(t)
    \/ \E t \in Tasks : DoScanClear(t)
    \/ \E t \in Tasks : DoScanScan(t)
    \/ \E t \in Tasks : DoScanIngest(t)
    \/ \E t \in Tasks : \E at \in StorageFaults : DoScanIngestFault(t, at)
    \/ \E t \in Tasks : DoScanRecord(t)
    \/ \E t \in Tasks : DoScanFinally(t)

SpecFault == Init /\ [][NextFault]_vars

(***************************************************************************)
(* The Hash Index driven through its methods, and the read handlers.       *)
(***************************************************************************)
\* the arguments the model passes to the methods of Database
DbPaths == {"psx/a.bin", "psx/sub/a.bin", "ps2/A.BIN"}
DbPlatforms == {"psx", "ps2"}

\* the row that holds a path, None when no row does
RowAt(tbl, file_path) ==
    LET hit == SelectSeq(tbl, LAMBDA r : r.file_path = file_path)
    IN  IF hit = <<>> THEN None ELSE Head(hit)

DbFrame ==
    UNCHANGED <<scan_history, scan_in_progress, fs, task, fs_changes, accepted, prev,
                   now, download>>

\* db.add_local_rom(platform, file_path, file_name, file_size, sha1_hash, ...)
AddLocalRom(platform, p, sha1_hash) ==
    LET row == [platform |-> platform, file_name |-> NameOf(p),
                file_path |-> p, sha1_hash |-> sha1_hash]
    IN  /\ local_roms' = add_local_rom(local_roms, row)
        /\ resp' = [op |-> "add_local_rom", row |-> row,
                    before |-> RowAt(local_roms, p)]
        /\ DbFrame

\* db.delete_local_rom(file_path)
DeleteLocalRom(p) ==
    /\ local_roms' = delete_local_rom(local_roms, p)
    /\ resp' = [op |-> "delete_local_rom", file_path |-> p]
    /\ DbFrame

\* db.clear_platform(platform)
ClearPlatform(platform) ==
    /\ local_roms' = clear_platform(local_roms, platform)
    /\ resp' = [op |-> "clear_platform", platform |-> platform]
    /\ DbFrame

\* db.get_local_rom_by_hash(sha1_hash)
GetLocalRomByHash(sha1_hash) ==
    /\ resp' = [op |-> "get_local_rom_by_hash", sha1_hash |-> sha1_hash,
                row |-> get_local_rom_by_hash(local_roms, sha1_hash)]
    /\ UNCHANGED local_roms
    /\ DbFrame

\* GET /api/roms/{rom_id}
GetRomDetails(rom) ==
    /\ resp' = [op |-> "get_rom_details", rom |-> rom,
                out |-> get_rom_details(local_roms, rom)]
    /\ UNCHANGED local_roms
    /\ DbFrame

\* GET /api/platforms/{platform_id}/roms
GetPlatformRoms(platform_name, roms) ==
    /\ resp' = [op |-> "get_platform_roms", platform_name |-> platform_name,
                roms |-> roms,
                out |-> get_platform_roms(local_roms, platform_name, roms)]
    /\ UNCHANGED local_roms
    /\ DbFrame

NextDb ==
    \/ \E platform \in DbPlatforms : \E p \in DbPaths :
          \E sha1_hash \in ContentsOf(p) : AddLocalRom(platform, p, sha1_hash)
    \/ \E p \in DbPaths : DeleteLocalRom(p)
    \/ \E platform \in DbPlatforms : ClearPlatform(platform)
    \/ \E sha1_hash \in Digests : GetLocalRomByHash(sha1_hash)
    \/ \E rom \in RemoteRoms : GetRomDetails(rom)
    \/ \E platform_name \in PlatformNames : \E roms \in Batches :
          GetPlatformRoms(platform_name, roms)

SpecDb == Init /\ [][NextDb]_vars

(***************************************************************************)
(* The Content Scanner called on every tree of a small library.            *)
(***************************************************************************)
TreePaths ==
    {"psx/a.bin", "psx/sub/a.bin", "psx/sub/n.txt", "ps2/a.bin", "ps2/A.BIN",
     "megadrive/g.smd"}

\* what the model lets a file of the library be when it is there
TreeContentsOf(p) ==
    CASE p = "psx/a.bin" -> {"d1", Unreadable}
      [] p = "psx/sub/a.bin" -> {"d2", Unstatable}
      [] p = "ps2/A.BIN" -> {"d2"}
      [] OTHER -> {"d1"}

Trees ==
    {f \in [TreePaths -> Digests \cup {Absent, Unreadable, Unstatable}] :
        \A p \in TreePaths : f[p] \in TreeContentsOf(p) \cup {Absent}}

\* the platform keys the scanner is called with: known keys, a key outside
\* the table and a key in capitals, whose directory the library lacks
ScannerKeys == {"psx", "ps2", "megadrive", "psx/sub", "PS2"}

InitScan ==
    /\ fs \in Trees
    /\ local_roms = <<>>
    /\ scan_history = <<>>
    /\ scan_in_progress = FALSE
    /\ task = [t \in Tasks |-> IdleTask]
    /\ resp = [op |-> "none"]
    /\ fs_changes = 0
    /\ accepted = 0
    /\ prev = [k \in PlatformKeys |-> NoSnapshot]
    /\ now = 0
    /\ download = IdleDownload

ScanFrame ==
    UNCHANGED <<local_roms, scan_history, scan_in_progress, fs, task,
                fs_changes, accepted, prev, now, download>>

\* scanner.scan_platform(platform)
ScanPlatform(platform) ==
    /\ resp' = [op |-> "scan_platform", platform |-> platform,
                raised |-> ScanRaises(fs, platform),
                out |-> IF ScanRaises(fs, platform) THEN <<>>
                        ELSE scan_platform(fs, platform)]
    /\ ScanFrame

\* scanner.get_platform_stats(platform)
GetPlatformStats(platform) ==
    /\ resp' = [op |-> "get_platform_stats", platform |-> platform,
                raised |-> StatsRaises(fs, platform),
                out |-> IF StatsRaises(fs, platform)
                        THEN [exists |-> TRUE, file_count |-> 0]
                        ELSE get_platform_stats(fs, platform)]
    /\ ScanFrame

NextScan ==
    \/ \E platform \in ScannerKeys : ScanPlatform(platform)
    \/ \E platform \in ScannerKeys : GetPlatformStats(platform)

SpecScan == InitScan /\ [][NextScan]_vars

(***************************************************************************)
(* POST /api/download and its background task (main.py, download_rom).     *)
(***************************************************************************)
\* the digest of a file that holds only the first chunks of a download
Partial == "dp"

\* how RommClient.download_rom ends: the whole body written (True); the
\* request refused before the destination is opened (False); the stream
\* broken after the destination was opened and truncated (False)
DownloadOutcomes == {"ok", "http_error", "broken"}

\* the platform and the remote file name of the download requests
DownloadRequests == {<<"psx", "a.bin">>, <<"ps2", "A.BIN">>, <<"psx/sub", "a.bin">>}

\* destination = retrodeck_path / request.platform / file_name
DestOf(platform, file_name) ==
    CASE platform = "psx" /\ file_name = "a.bin" -> "psx/a.bin"
      [] platform = "ps2" /\ file_name = "A.BIN" -> "ps2/A.BIN"
      [] platform = "psx/sub" /\ file_name = "a.bin" -> "psx/sub/a.bin"

\* RommClient.download_rom: the tree it leaves; c is what the destination
\* is once the whole body has been written
download_rom(f, dest, outcome, c) ==
    CASE outcome = "ok" -> [f EXCEPT ![dest] = c]
      [] outcome = "broken" -> [f EXCEPT ![dest] = Partial]
      [] OTHER -> f

\* do_download: download, then quick_scan_file and add_local_rom when the
\* download returned True and the quick scan a record; an exception is
\* logged.  A download that writes the destination counts as a change of
\* the tree
DoDownload(platform, file_name, outcome, c) ==
    LET dest == DestOf(platform, file_name)
        written == download_rom(fs, dest, outcome, c)
        success == outcome = "ok"
        rom_info == quick_scan_file(written, dest)
        registers == /\ success
                     /\ ~QuickScanRaises(written, dest)
                     /\ rom_info # None
    IN  /\ outcome = "http_error" \/ fs_changes < MaxFsChanges
        /\ fs' = written
        /\ fs_changes' = IF outcome = "http_error" THEN fs_changes
                         ELSE fs_changes + 1
        /\ local_roms' = IF registers
                         THEN add_local_rom(local_roms,
                                  [platform |-> platform,
                                   file_name |-> rom_info.file_name,
                                   file_path |-> rom_info.file_path,
                                   sha1_hash |-> rom_info.sha1_hash])
                         ELSE local_roms
        /\ task' = IF registers THEN Disturb(task, 0) ELSE task
        /\ resp' = [op |-> "do_download", platform |-> platform, dest |-> dest,
                    success |-> success, content |-> written[dest],
                    before |-> local_roms, after |-> local_roms']
        /\ UNCHANGED <<scan_history, scan_in_progress, accepted, prev,
                   now, download>>

\* downloads, on an index that is also cleared platform by platform
NextDownload ==
    \/ \E r \in DownloadRequests : \E outcome \in DownloadOutcomes :
          \E c \in Digests \cup {Unreadable, Unstatable} :
              DoDownload(r[1], r[2], outcome, c)
    \/ \E platform \in DbPlatforms : ClearPlatform(platform)

SpecDownload == Init /\ [][NextDownload]_vars

(***************************************************************************)
(* Listings that hold malformed entries.                                   *)
(***************************************************************************)
\* the entries of such a listing: three well-formed ones, told apart by
\* their id, and two malformed ones
ListingEntries ==
    {[id |-> "r1", has_files |-> TRUE, sha1_hash |-> "d1", file_name |-> NoValue,
      platform_name |-> "Other"],
     [id |-> "r2", has_files |-> TRUE, sha1_hash |-> NoValue,
      file_name |-> "A.BIN", platform_name |-> "Other"],
     [id |-> "r3", has_files |-> FALSE, sha1_hash |-> NoValue,
      file_name |-> NoValue, platform_name |-> "Other"],
     [id |-> "m1", malformed |-> "not a dict"],
     [id |-> "m2", malformed |-> "files is null"]}

Listings == UNION {[1 .. n -> ListingEntries] : n \in 1 .. MaxListing}

NextBatch ==
    \E platform_name \in PlatformNames : \E roms \in Listings :
        GetPlatformRoms(platform_name, roms)

SpecBatch == Init /\ [][NextBatch]_vars

(***************************************************************************)
(* The read handlers, answered while scans run.                            *)
(***************************************************************************)
ReadFrame ==
    UNCHANGED <<local_roms, scan_history, scan_in_progress, fs, task,
                fs_changes, accepted, prev, now, download>>

\* GET /api/scan/status; pending tells whether an accepted scan had not
\* ended when the query was answered
GetScanStatus ==
    /\ resp' = [op |-> "get_scan_status",
                out |-> get_scan_status(local_roms, scan_history,
                                        scan_in_progress),
                pending |-> \E t \in Tasks : Unfinished(t)]
    /\ ReadFrame

\* GET /api/stats
GetStats ==
    /\ resp' = [op |-> "get_stats", out |-> get_stats(local_roms, scan_history)]
    /\ ReadFrame

\* the scan requests and the remote entries of the reads
ReadScanRequests == {<<"psx">>, <<"ps2">>}

ReadRoms ==
    {[has_files |-> TRUE, sha1_hash |-> "d1", file_name |-> "a.bin",
      platform_name |-> "Sony - PlayStation 2"],
     [has_files |-> TRUE, sha1_hash |-> NoValue, file_name |-> "a.bin",
      platform_name |-> "Sony - PlayStation"]}

NextRead ==
    \/ \E platforms \in ReadScanRequests : ScanLocalRoms(platforms)
    \/ \E t \in Tasks : DoScanStart(t)
    \/ \E t \in Tasks : DoScanClear(t)
    \/ \E t \in Tasks : DoScanScan(t)
    \/ \E t \in Tasks : DoScanIngest(t)
    \/ \E t \in Tasks : DoScanRecord(t)
    \/ \E t \in Tasks : DoScanFinally(t)
    \/ \E rom \in ReadRoms : GetRomDetails(rom)
    \/ \E rom \in ReadRoms : GetPlatformRoms(rom.platform_name, <<rom>>)
    \/ GetScanStatus
    \/ GetStats

SpecRead == Init /\ [][NextRead]_vars

(***************************************************************************)
(* _calculate_file_hashes on every small file and every way of reading it. *)
(***************************************************************************)
ByteValues == {0, 1, 255}

FileContents == UNION {[1 .. n -> ByteValues] : n \in 0 .. MaxBytes}

RECURSIVE ChunkReads(_)
\* the ways of reading a content to its end: every read returns at least a
\* byte and at most ReadSize bytes; the empty read that ends the loop is
\* not listed
ChunkReads(content) ==
    IF content = <<>> THEN {<<>>}
    ELSE UNION {{<<SubSeq(content, 1, k)>> \o rest :
                    rest \in ChunkReads(SubSeq(content, k + 1, Len(content)))} :
                  k \in {j \in 1 .. Len(content) : j <= ReadSize}}

InitHash ==
    /\ resp \in {[op |-> "open", content |-> c] : c \in FileContents}
    /\ local_roms = <<>>
    /\ scan_history = <<>>
    /\ scan_in_progress = FALSE
    /\ fs = InitialFs
    /\ task = [t \in Tasks |-> IdleTask]
    /\ fs_changes = 0
    /\ accepted = 0
    /\ prev = [k \in PlatformKeys |-> NoSnapshot]
    /\ now = 0
    /\ download = IdleDownload

\* self._calculate_file_hashes(file_path), the file read as chunks
CalculateFileHashes(chunks) ==
    /\ resp' = [op |-> "_calculate_file_hashes", content |-> resp.content,
                chunks |-> chunks, out |-> calculate_file_hashes(chunks)]
    /\ ReadFrame

NextHash == \E chunks \in ChunkReads(resp.content) : CalculateFileHashes(chunks)

SpecHash == InitHash /\ [][NextHash]_vars

(***************************************************************************)
(* add_local_rom at the grain of the statement: the table is read and      *)
(* written through one connection shared by the threads                    *)
(* (check_same_thread=False).  SQLite serialises the calls made on a       *)
(* connection: the INSERT OR REPLACE runs, from the removal of the         *)
(* conflicting row to the insertion of the new one, with the connection's  *)
(* mutex held, and a SELECT of another thread waits for it.                *)
(***************************************************************************)
\* every call finds the connection free
Unserialized == TRUE

\* the mutex of the connection is free: no statement of a writer is under
\* way
ConnectionFree == download.pc # "replacing"

UpsertFrame ==
    UNCHANGED <<scan_history, scan_in_progress, fs, task, fs_changes, accepted,
                prev, now>>

\* the upsert under way, as a reader may meet it: the row the path had when
\* the call began and the row being written
UpsertsUnderWay ==
    IF download.pc = "idle" THEN {}
    ELSE {[old |-> download.old, new |-> download.row]}

\* db.add_local_rom(**rom_info) is called
UpsertCall(platform, p, sha1_hash) ==
    /\ download.pc = "idle"
    /\ download' = [pc |-> "execute",
                    row |-> [platform |-> platform, file_name |-> NameOf(p),
                             file_path |-> p, sha1_hash |-> sha1_hash],
                    old |-> RowAt(local_roms, p)]
    /\ UNCHANGED <<local_roms, resp>>
    /\ UpsertFrame

\* cursor.execute: the statement takes the mutex; OR REPLACE removes the row
\* that holds the path
UpsertRemove ==
    /\ download.pc = "execute"
    /\ ConnectionFree
    /\ local_roms' = SelectSeq(local_roms,
                               LAMBDA r : r.file_path # download.row.file_path)
    /\ download' = [download EXCEPT !.pc = "replacing"]
    /\ UNCHANGED resp
    /\ UpsertFrame

\* the new row is inserted with a fresh id and the statement ends
UpsertInsert ==
    /\ download.pc = "replacing"
    /\ local_roms' = Append(local_roms, download.row)
    /\ download' = [download EXCEPT !.pc = "commit"]
    /\ UNCHANGED resp
    /\ UpsertFrame

\* self.conn.commit(), and the method returns
UpsertCommit ==
    /\ download.pc = "commit"
    /\ download' = IdleDownload
    /\ UNCHANGED <<local_roms, resp>>
    /\ UpsertFrame

\* db.get_local_roms_by_platform(platform), called by another thread
ListWhileWriting(platform) ==
    /\ ConnectionFree
    /\ resp' = [op |-> "get_local_roms_by_platform", platform |-> platform,
                out |-> get_local_roms_by_platform(local_roms, platform),
                concurrent |-> UpsertsUnderWay]
    /\ UNCHANGED <<local_roms, download>>
    /\ UpsertFrame

\* db.get_local_rom_by_hash(sha1_hash), called by another thread
LookupWhileWriting(sha1_hash) ==
    /\ ConnectionFree
    /\ resp' = [op |-> "get_local_rom_by_hash", sha1_hash |-> sha1_hash,
                row |-> get_local_rom_by_hash(local_roms, sha1_hash),
                concurrent |-> UpsertsUnderWay]
    /\ UNCHANGED <<local_roms, download>>
    /\ UpsertFrame

\* the paths the writer registers, under the platform of their directory
UpsertPaths == {"psx/a.bin", "psx/sub/a.bin"}

NextUpsert ==
    \/ \E p \in UpsertPaths : \E sha1_hash \in ContentsOf(p) :
          UpsertCall("psx", p, sha1_hash)
    \/ UpsertRemove
    \/ UpsertInsert
    \/ UpsertCommit
    \/ \E platform \in DbPlatforms : ListWhileWriting(platform)
    \/ \E sha1_hash \in Digests : LookupWhileWriting(sha1_hash)

SpecUpsert == Init /\ [][NextUpsert]_vars

(***************************************************************************)
(* Scans that fail: an exception raised inside the try of do_scan.         *)
(***************************************************************************)
\* a task that an exception ends at once, no handler run
Abandoned(tk) == IdleTask

\* try / except Exception / finally of do_scan: the exception leaves the
\* loop, is logged, and control reaches finally
Caught(tk) == [tk EXCEPT !.pc = "finally", !.clean = FALSE]

\* a call of the loop raises before it has changed anything: clear_platform
\* or add_scan_record (sqlite3.Error), add_local_rom (an error that is not a
\* sqlite3.Error), scan_platform (OSError)
DoScanFail(t) ==
    /\ task[t].pc \in {"clear", "scan", "ingest"}
    /\ task' = [task EXCEPT ![t] = Caught(task[t])]
    /\ resp' = [op |-> "do_scan", failed_at |-> task[t].pc,
                left |-> task[t].platforms]
    /\ UNCHANGED <<local_roms, scan_history, scan_in_progress, fs, fs_changes,
                   accepted, prev, now, download>>

GuardRequests == {<<"psx", "ps2">>}

\* a step of the background task t when nothing fails
TaskStep(t) ==
    \/ DoScanStart(t)
    \/ DoScanClear(t)
    \/ DoScanScan(t)
    \/ DoScanIngest(t)
    \/ DoScanRecord(t)
    \/ DoScanFinally(t)

NextGuard ==
    \/ \E platforms \in GuardRequests : ScanLocalRoms(platforms)
    \/ \E t \in Tasks : TaskStep(t)
    \/ \E t \in Tasks : DoScanFail(t)

\* a background task that can run does run (the thread pool of the
\* server); requests, failures and changes of the tree may or may not come
SpecGuard ==
    Init /\ [][NextGuard]_vars /\ \A t \in Tasks : WF_vars(TaskStep(t))

(***************************************************************************)
(* Scans and statistics while the clock runs.                              *)
(***************************************************************************)
\* a second passes
Tick ==
    /\ now < MaxClock
    /\ now' = now + 1
    /\ UNCHANGED <<local_roms, scan_history, scan_in_progress, fs, task, resp,
                   fs_changes, accepted, prev, download>>

ClockRequests == {<<"psx", "ps2">>}

NextClock ==
    \/ Tick
    \/ \E platforms \in ClockRequests : ScanLocalRoms(platforms)
    \/ \E t \in Tasks : TaskStep(t)
    \/ GetScanStatus
    \/ GetStats

SpecClock == Init /\ [][NextClock]_vars

(***************************************************************************)
(* A download, step by step, beside scans of its platform.                 *)
(***************************************************************************)
RaceFrame == UNCHANGED <<scan_history, scan_in_progress, resp, accepted, prev, now>>

\* POST /api/download: the destination is fixed and do_download is added as
\* a background task; c is the digest of the remote file
DownloadRom(platform, file_name, c) ==
    /\ download.pc = "idle"
    /\ download' = [pc |-> "open", platform |-> platform,
                    dest |-> DestOf(platform, file_name), content |-> c]
    /\ UNCHANGED <<local_roms, fs, task, fs_changes>>
    /\ RaceFrame

\* RommClient.download_rom: open(destination_path, 'wb') creates or
\* truncates the file
DoDownloadOpen ==
    /\ download.pc = "open"
    /\ fs' = [fs EXCEPT ![download.dest] = Partial]
    /\ fs_changes' = fs_changes + 1
    /\ download' = [download EXCEPT !.pc = "writing"]
    /\ UNCHANGED <<local_roms, task>>
    /\ RaceFrame

\* the last chunk is written and the file is closed; download_rom returns
\* True
DoDownloadWrite ==
    /\ download.pc = "writing"
    /\ fs' = [fs EXCEPT ![download.dest] = download.content]
    /\ fs_changes' = fs_changes + 1
    /\ download' = [download EXCEPT !.pc = "written"]
    /\ UNCHANGED <<local_roms, task>>
    /\ RaceFrame

\* do_download after success: rom_info = scanner.quick_scan_file(dest);
\* rom_info['platform'] = platform; db.add_local_rom(**rom_info)
DoDownloadRegister ==
    /\ download.pc = "written"
    /\ LET rom_info == quick_scan_file(fs, download.dest)
       IN  /\ local_roms' = IF rom_info # None
                            THEN add_local_rom(local_roms,
                                     [platform |-> download.platform,
                                      file_name |-> rom_info.file_name,
                                      file_path |-> rom_info.file_path,
                                      sha1_hash |-> rom_info.sha1_hash])
                            ELSE local_roms
           /\ task' = IF rom_info # None THEN Disturb(task, 0) ELSE task
    /\ download' = [download EXCEPT !.pc = "done"]
    /\ UNCHANGED <<fs, fs_changes>>
    /\ RaceFrame

RaceRequests == {<<"psx">>}

NextRace ==
    \/ \E c \in Digests : DownloadRom("psx", "a.bin", c)
    \/ DoDownloadOpen
    \/ DoDownloadWrite
    \/ DoDownloadRegister
    \/ \E platforms \in RaceRequests : ScanLocalRoms(platforms)
    \/ \E t \in Tasks : TaskStep(t)

SpecRace == Init /\ [][NextRace]_vars

(***************************************************************************)
(* Properties.                                                             *)
(***************************************************************************)
\* the positions of the rows that hold a hash
HoldsHash(sha1_hash) ==
    {i \in 1 .. Len(local_roms) : local_roms[i].sha1_hash = sha1_hash}

\* the lowest of a non-empty set of positions
Lowest(S) == CHOOSE i \in S : \A j \in S : i <= j

\* the resolutions the last answer holds: per remote entry what it
\* declared, the local folder that scoped the file-name lookup, and the
\* annotation returned
Resolved ==
    IF resp.op = "get_rom_details"
    THEN {[form |-> "single", has_files |-> resp.rom.has_files,
           sha1_hash |-> resp.rom.sha1_hash, file_name |-> resp.rom.file_name,
           folder |-> platform_mapping(resp.rom.platform_name),
           out |-> resp.out]}
    ELSE IF resp.op = "get_platform_roms"
    THEN {[form |-> "batch", has_files |-> resp.roms[i].has_files,
           sha1_hash |-> resp.roms[i].sha1_hash,
           file_name |-> resp.roms[i].file_name,
           folder |-> platform_mapping(resp.platform_name),
           out |-> resp.out[i]] : i \in 1 .. Len(resp.roms)}
    ELSE {}

\* some row of the folder has the entry's file name
NameMatch(x) ==
    \E i \in 1 .. Len(local_roms) :
        /\ local_roms[i].platform = x.folder
        /\ local_roms[i].file_name = x.file_name

\* C1: a scan-start request that arrives while an accepted scan has not
\* finished is answered 409 (and schedules nothing).
C1_SecondScanRejected ==
    (resp.op = "scan_local_roms" /\ resp.pending) => resp.status = 409

\* C2: at most one do_scan task is executing in any state.
C2_AtMostOneScanExecuting ==
    Cardinality({t \in Tasks : Executing(t)}) <= 1

\* the case of C3: the declared sha1 is that of the row at P1, and the
\* declared file name is that of another row, of the entry's folder
PrecedenceCase(x, P1) ==
    /\ x.has_files
    /\ x.sha1_hash # NoValue
    /\ \E i \in 1 .. Len(local_roms) : \E j \in 1 .. Len(local_roms) :
        /\ local_roms[i].file_path = P1
        /\ local_roms[i].sha1_hash = x.sha1_hash
        /\ local_roms[j].file_path # P1
        /\ local_roms[j].platform = x.folder
        /\ local_roms[j].file_name = x.file_name

\* C3 as claimed: in the precedence case both forms return available=true
\* with local path P1.
C3_HashWinsAtP1 ==
    \A x \in Resolved : \A P1 \in Paths :
        PrecedenceCase(x, P1) =>
            x.out.local_available /\ x.out.local_path = P1

\* C3 as amended: in the precedence case both forms return available=true
\* with the path of the row of lowest id among those that hold the declared
\* sha1 (P1 itself when no other row holds it); the file name decides nothing.
C3_HashWins ==
    \A x \in Resolved : \A P1 \in Paths :
        PrecedenceCase(x, P1) =>
            /\ x.out.has_local_available
            /\ x.out.local_available
            /\ x.out.local_path =
                   local_roms[Lowest(HoldsHash(x.sha1_hash))].file_path
            /\ Cardinality(HoldsHash(x.sha1_hash)) = 1 => x.out.local_path = P1

\* a batch answer in the precedence case, the hash held by one row only,
\* the path returned being P1 in the batch and in the single-entry form
C3_Witness ==
    /\ resp.op = "get_platform_roms"
    /\ \E x \in Resolved : \E P1 \in Paths :
        /\ PrecedenceCase(x, P1)
        /\ Cardinality(HoldsHash(x.sha1_hash)) = 1
        /\ x.out.local_path = P1
        /\ get_rom_details(local_roms,
               [has_files |-> TRUE, sha1_hash |-> x.sha1_hash,
                file_name |-> x.file_name,
                platform_name |-> resp.platform_name]).local_path = P1

\* C4: for an entry with files and no declared sha1, a returned row is a row
\* of the entry's folder with the entry's file name, and when the folder has
\* no row of that name the answer is unavailable, with no path.
C4_FilenameFallbackScoped ==
    \A x \in Resolved :
        (x.has_files /\ x.sha1_hash = NoValue) =>
            /\ x.out.local_available =>
                  \E i \in 1 .. Len(local_roms) :
                      /\ local_roms[i].file_path = x.out.local_path
                      /\ local_roms[i].platform = x.folder
                      /\ local_roms[i].file_name = x.file_name
            /\ ~NameMatch(x) =>
                  ~x.out.local_available /\ x.out.local_path = NoPath

\* an entry without sha1 whose file name is held only by a row of another
\* platform, answered unavailable
C4_Witness ==
    \E x \in Resolved :
        /\ x.has_files /\ x.sha1_hash = NoValue
        /\ x.file_name \in FileNames
        /\ x.folder # NoValue
        /\ ~NameMatch(x)
        /\ \E i \in 1 .. Len(local_roms) :
              /\ local_roms[i].file_name = x.file_name
              /\ local_roms[i].platform # x.folder
        /\ ~x.out.local_available

\* C5: no two rows share a file_path; after add_local_rom the path is held
\* by the row just written and by no other, and a hash other than the one
\* just written does not resolve to that path.
C5_PathUniqueness ==
    /\ \A i \in 1 .. Len(local_roms) : \A j \in 1 .. Len(local_roms) :
          local_roms[i].file_path = local_roms[j].file_path => i = j
    /\ resp.op = "add_local_rom" =>
          /\ RowAt(local_roms, resp.row.file_path) = resp.row
          /\ \A h \in Digests \ {resp.row.sha1_hash} :
                get_local_rom_by_hash(local_roms, h).file_path
                    # resp.row.file_path

\* an upsert of a path that held a row with another fingerprint
C5_Witness ==
    /\ resp.op = "add_local_rom"
    /\ resp.before # None
    /\ resp.before.sha1_hash # resp.row.sha1_hash
    /\ get_local_rom_by_hash(local_roms, resp.before.sha1_hash).file_path
           # resp.row.file_path

\* C6 as claimed: the lookup of a hash returns exactly the record of any
\* indexed file that has this hash, and None when no row holds the hash.
C6_LookupReturnsThatRecord ==
    resp.op = "get_local_rom_by_hash" =>
        /\ \A i \in HoldsHash(resp.sha1_hash) : resp.row = local_roms[i]
        /\ HoldsHash(resp.sha1_hash) = {} => resp.row = None

\* C6 as amended: the lookup of a hash returns None when no row holds it,
\* and otherwise the row of lowest id among those that hold it, which is
\* exactly the indexed file's record when no other indexed file has the hash.
C6_HashLookup ==
    resp.op = "get_local_rom_by_hash" =>
        IF HoldsHash(resp.sha1_hash) = {}
        THEN resp.row = None
        ELSE /\ resp.row = local_roms[Lowest(HoldsHash(resp.sha1_hash))]
             /\ resp.row.sha1_hash = resp.sha1_hash

\* a lookup of a hash that two rows hold
C6_Witness ==
    /\ resp.op = "get_local_rom_by_hash"
    /\ Cardinality(HoldsHash(resp.sha1_hash)) = 2
    /\ resp.row = local_roms[Lowest(HoldsHash(resp.sha1_hash))]

\* the results of task t, as a set
ResultSet(t) == {task[t].results[i] : i \in 1 .. Len(task[t].results)}

\* task t has ingested a platform and no other writer wrote meanwhile
CleanlyIngested(t) == Ingested(t) /\ task[t].clean

\* C7: when an undisturbed scan of a platform ends and the tree has not
\* changed since the previous undisturbed scan of that platform read it, the
\* platform's rows are the rows that previous scan left.
C7_RescanIdempotent ==
    \A t \in Tasks :
        LET platform == Head(task[t].platforms)
        IN  (/\ CleanlyIngested(t)
             /\ prev[platform].valid
             /\ prev[platform].gen = task[t].gen)
            => RowsOf(local_roms, platform) = prev[platform].recs

\* a second undisturbed scan of an unchanged, non-empty platform directory
C7_Witness ==
    \E t \in Tasks :
        /\ CleanlyIngested(t)
        /\ prev[Head(task[t].platforms)].valid
        /\ prev[Head(task[t].platforms)].gen = task[t].gen
        /\ prev[Head(task[t].platforms)].recs # {}
        /\ accepted = 2

\* C8: when a scan of a platform has ingested its results and no other
\* writer wrote meanwhile, the platform's rows are exactly the records the
\* scanner returned.
C8_ReplaceNotMerge ==
    \A t \in Tasks :
        CleanlyIngested(t) =>
            RowsOf(local_roms, Head(task[t].platforms)) = ResultSet(t)

\* a rescan after a file has gone: the row the previous scan left for it is
\* no longer there
C8_Witness ==
    \E t \in Tasks :
        /\ CleanlyIngested(t)
        /\ \E r \in prev[Head(task[t].platforms)].recs :
              /\ fs[r.file_path] = Absent
              /\ RowAt(local_roms, r.file_path) = None

\* neither lookup step has a match for the entry
NoMatch(x) ==
    /\ x.sha1_hash = NoValue \/ HoldsHash(x.sha1_hash) = {}
    /\ ~NameMatch(x)

\* C9: an entry that neither step matches (an entry without files included)
\* is answered available=false with no local path, in both forms.
C9_NoMatchUnavailable ==
    \A x \in Resolved :
        NoMatch(x) =>
            /\ x.out.has_local_available
            /\ ~x.out.local_available
            /\ x.out.local_path = NoPath

\* the files of the tree below a platform directory
FilesBelow(platform) ==
    {p \in Paths : fs[p] # Absent /\ platform \in DirsAbove(p)}

\* C10: after an undisturbed scan of platform P over the tree as it is,
\* every file F below P's directory resolves, by its name and digest and a
\* remote platform mapped to P, to available=true at F's path, and the
\* statistics count one row of P per file.
C10_EndToEnd ==
    \A t \in Tasks :
        (CleanlyIngested(t) /\ task[t].gen = fs_changes) =>
            LET P == Head(task[t].platforms)
            IN  \A pn \in PlatformNames :
                    platform_mapping(pn) = P =>
                        /\ \A p \in FilesBelow(P) :
                              get_rom_details(local_roms,
                                  [has_files |-> TRUE, sha1_hash |-> fs[p],
                                   file_name |-> NameOf(p),
                                   platform_name |-> pn])
                              = [has_local_available |-> TRUE,
                                 local_available |-> TRUE, local_path |-> p]
                        /\ PlatformCount(local_roms, P)
                              = Cardinality(FilesBelow(P))

\* the rows of the entry's folder that have the entry's file name, in the
\* order of the listing (file_name, then row id)
NameCandidates(x) ==
    SelectSeq(OrderByFileName(SelectSeq(local_roms,
                                        LAMBDA r : r.platform = x.folder)),
              LAMBDA r : r.file_name = x.file_name)

\* C11: when no row holds the declared hash and several rows of the folder
\* have the declared file name, both forms return the first of them in the
\* order of the listing (so the batch form agrees with the single form).
C11_FirstCandidateWins ==
    \A x \in Resolved :
        (/\ x.has_files
         /\ x.sha1_hash = NoValue \/ HoldsHash(x.sha1_hash) = {}
         /\ Len(NameCandidates(x)) >= 2)
        => /\ x.out.local_available
           /\ x.out.local_path = NameCandidates(x)[1].file_path

\* the elements of a sequence, as a set
Range(q) == {q[i] : i \in 1 .. Len(q)}

\* a sequence without repetition
NoRepeat(q) == \A i \in 1 .. Len(q) : \A j \in 1 .. Len(q) : q[i] = q[j] => i = j

\* the paths of the records a scan returned
PathsOf(results) == [i \in 1 .. Len(results) |-> results[i].file_path]

\* the files of tree f below the directory of a platform key
Below(f, platform) ==
    {p \in DOMAIN f : f[p] # Absent /\ platform \in DirsAbove(p)}

\* C12: scan_platform returns no two records with the same file path, and
\* its candidate list names no file twice, whatever patterns the platform has.
C12_NoDuplicatePaths ==
    resp.op = "scan_platform" =>
        /\ NoRepeat(PathsOf(resp.out))
        /\ NoRepeat(RomFiles(fs, resp.platform, ValidExtensions(resp.platform)))

\* a scan of a platform with several patterns, among them .md and .smd,
\* that returns the .smd file of its directory
C12_Witness ==
    /\ resp.op = "scan_platform"
    /\ resp.platform = "megadrive"
    /\ PathsOf(resp.out) = <<"megadrive/g.smd">>

\* C13: a scan of a known platform returns a record for every readable file
\* below its directory whose suffix, letter case ignored, is one of the
\* platform's extensions.
C13_SuffixCaseInsensitive ==
    (/\ resp.op = "scan_platform"
     /\ ~resp.raised
     /\ ROM_EXTENSIONS(Lower(resp.platform)) # <<>>)
    => \A p \in Below(fs, resp.platform) :
          (/\ fs[p] \in Digests
           /\ Lower(SuffixOf(p)) \in Range(ROM_EXTENSIONS(Lower(resp.platform))))
          => p \in Range(PathsOf(resp.out))

\* C14: a scan does not fail, and returns exactly the candidates that can be
\* stat-ed and read: a candidate whose stat or read fails is left out and
\* every other one is returned.
C14_PerFileTolerance ==
    resp.op = "scan_platform" =>
        /\ ~resp.raised
        /\ Range(PathsOf(resp.out)) =
              {p \in Range(RomFiles(fs, resp.platform,
                                    ValidExtensions(resp.platform))) :
                  fs[p] \in Digests}

\* C16: for a key outside the extension table every file below the platform
\* directory is a candidate, once, whatever its suffix, and a scan that
\* returns has one record for each of them that could be hashed.
C16_WildcardPolicy ==
    (resp.op = "scan_platform" /\ ROM_EXTENSIONS(Lower(resp.platform)) = <<>>)
    => LET rom_files == RomFiles(fs, resp.platform,
                                 ValidExtensions(resp.platform))
       IN  /\ Range(rom_files) = Below(fs, resp.platform)
           /\ NoRepeat(rom_files)
           /\ ~resp.raised =>
                 /\ NoRepeat(PathsOf(resp.out))
                 /\ Range(PathsOf(resp.out)) =
                       {p \in Below(fs, resp.platform) : fs[p] \in Digests}

\* a scan under an unknown key that returns a .bin file and a .txt file
C16_Witness ==
    /\ resp.op = "scan_platform"
    /\ resp.platform = "psx/sub"
    /\ Range(PathsOf(resp.out)) = {"psx/sub/a.bin", "psx/sub/n.txt"}

\* C17: get_platform_stats fails where scan_platform fails and otherwise
\* counts the candidates of scan_platform, for every key and tree; when every
\* file below the directory is readable the count is the number of records
\* a scan of the same tree returns, all of different paths.
C17_StatsMatchScan ==
    resp.op = "get_platform_stats" =>
        /\ resp.raised = ScanRaises(fs, resp.platform)
        /\ ~resp.raised =>
              /\ resp.out.exists = PlatformDirExists(fs, resp.platform)
              /\ resp.out.file_count =
                    Len(RomFiles(fs, resp.platform,
                                 ValidExtensions(resp.platform)))
              /\ (\A p \in Below(fs, resp.platform) : fs[p] \in Digests) =>
                    /\ resp.out.file_count =
                          Len(scan_platform(fs, resp.platform))
                    /\ resp.out.file_count =
                          Cardinality(Range(PathsOf(
                              scan_platform(fs, resp.platform))))

\* statistics of a known platform whose directory also holds a file of
\* another suffix, and of an unknown key, with files to count
C17_Witness ==
    /\ resp.op = "get_platform_stats"
    /\ ~resp.raised
    /\ \A p \in Below(fs, resp.platform) : fs[p] \in Digests
    /\ resp.platform = "psx"
    /\ fs["psx/sub/n.txt"] # Absent
    /\ resp.out.file_count = 2

\* C15: a scan of a platform whose directory is missing returns the empty
\* list without raising, and do_scan, having recorded it, goes on to the
\* next platform of the request.
C15_AbsentDirectory ==
    [][\A t \in Tasks :
          /\ (/\ task[t].pc = "scan"
              /\ ~PlatformDirExists(fs, Head(task[t].platforms))
              /\ task'[t].pc # "scan")
             => /\ task'[t].pc = "ingest"
                /\ task'[t].results = <<>>
                /\ task'[t].platforms = task[t].platforms
          /\ (/\ Ingested(t)
              /\ ~PlatformDirExists(fs, Head(task[t].platforms))
              /\ Tail(task[t].platforms) # <<>>
              /\ task'[t].pc # "ingest")
             => /\ task'[t].pc = "clear"
                /\ task'[t].platforms = Tail(task[t].platforms)
                /\ scan_history' = Append(scan_history,
                                          [platform |-> Head(task[t].platforms),
                                           files_scanned |-> 0,
                                           scanned_at |-> now])
      ]_vars

\* a request for PS2, whose directory is missing, and psx: PS2 was recorded
\* with no file and the task has ingested the files of psx
C15_Witness ==
    \E t \in Tasks :
        /\ Ingested(t)
        /\ task[t].platforms = <<"psx">>
        /\ task[t].results # <<>>
        /\ \E i \in 1 .. Len(scan_history) :
              /\ scan_history[i].platform = "PS2"
              /\ scan_history[i].files_scanned = 0

\* C18: an upsert that meets a storage error returns None and leaves the
\* index as it was, and the ingest loop of the scan goes on with the records
\* that are left.
C18_FailedUpsertChangesNothing ==
    (resp.op = "add_local_rom" /\ resp.returned = None) =>
        /\ resp.after = resp.before
        /\ resp.pc_after = "ingest"

\* whether the index has a match for a well-formed entry: a row with the
\* declared hash, or a row of the folder with the declared file name
HasMatch(rom, folder) ==
    /\ rom.has_files
    /\ \/ rom.sha1_hash # NoValue /\ HoldsHash(rom.sha1_hash) # {}
       \/ /\ rom.file_name # NoValue
          /\ \E i \in 1 .. Len(local_roms) :
                /\ local_roms[i].platform = folder
                /\ local_roms[i].file_name = rom.file_name

C20_DownloadRegisters ==
    resp.op = "do_download" =>
        IF resp.success /\ resp.content \in Digests
        THEN /\ RowAt(resp.after, resp.dest) =
                   [platform |-> resp.platform, file_name |-> NameOf(resp.dest),
                    file_path |-> resp.dest, sha1_hash |-> resp.content]
             /\ Cardinality({i \in 1 .. Len(resp.after) :
                                resp.after[i].file_path = resp.dest}) = 1
             /\ \A p \in Paths \ {resp.dest} :
                   RowAt(resp.after, p) = RowAt(resp.before, p)
        ELSE resp.after = resp.before

\* a successful download over a path the index held with another digest,
\* beside the row of another path
C20_Witness ==
    /\ resp.op = "do_download"
    /\ resp.success
    /\ resp.content \in Digests
    /\ RowAt(resp.before, resp.dest) # None
    /\ RowAt(resp.before, resp.dest).sha1_hash # resp.content
    /\ \E p \in Paths \ {resp.dest} : RowAt(resp.before, p) # None
    /\ RowAt(resp.after, resp.dest).sha1_hash = resp.content

\* the handlers that only read the index
ReadOps == {"get_rom_details", "get_platform_roms", "get_scan_status", "get_stats"}

\* C21: the resolve, status and statistics requests can be answered in every
\* state, a running scan included; answering one changes no row of
\* local_roms or scan_history, and the statistics it returns are those of
\* the index as it is at that moment.
C21_ReadsAreReadOnly ==
    /\ [](/\ ENABLED GetScanStatus
          /\ ENABLED GetStats
          /\ \A rom \in ReadRoms :
                /\ ENABLED GetRomDetails(rom)
                /\ ENABLED GetPlatformRoms(rom.platform_name, <<rom>>))
    /\ [][(resp' # resp /\ resp'.op \in ReadOps) =>
              /\ local_roms' = local_roms
              /\ scan_history' = scan_history
              /\ resp'.op = "get_scan_status" =>
                    /\ resp'.out.stats.total_roms = Len(local_roms)
                    /\ resp'.out.stats.by_platform =
                          {[platform |-> k, count |-> PlatformCount(local_roms, k)] :
                              k \in PlatformsOf(local_roms)}]_vars

\* a status query answered while a scan that has cleared its platform is
\* ingesting, the index holding rows
C21_Witness ==
    /\ resp.op = "get_scan_status"
    /\ \E t \in Tasks : task[t].pc = "ingest" /\ task[t].done = 1
    /\ resp.out.in_progress
    /\ resp.out.stats.total_roms = Len(local_roms)
    /\ local_roms # <<>>

\* C22: a status query reports in_progress = true exactly when an accepted
\* scan has not ended (queued as a background task, or executing do_scan).
C22_StatusTracksScan ==
    resp.op = "get_scan_status" => resp.out.in_progress = resp.pending

\* the content read in one piece (no piece at all for an empty file)
SingleRead(content) == IF content = <<>> THEN <<>> ELSE <<content>>

\* C23: however the content is split into chunk reads, the SHA-1, MD5 and
\* CRC32 values returned are those of the content read in one piece, and the
\* CRC32 is the checksum of the whole content.
C23_StreamingHash ==
    resp.op = "_calculate_file_hashes" =>
        /\ resp.out = calculate_file_hashes(SingleRead(resp.content))
        /\ resp.out.crc = Format08x(crc32(resp.content, ZeroWord))

\* the bytes 01 ff 00 read one at a time: the checksum is zlib's for the
\* three bytes together
C23_Witness ==
    /\ resp.op = "_calculate_file_hashes"
    /\ resp.content = <<1, 255, 0>>
    /\ Len(resp.chunks) = 3
    /\ resp.out.crc = <<"6", "d", "a", "7", "4", "e", "5", "7">>

\* C24: a listing or a lookup answered while an upsert of a path is under
\* way returns for that path the row it had before or the complete new row,
\* and returns one of them whenever both match the query: no partial row and
\* no moment at which a path that had a row has none.
C24_UpsertAtomic ==
    /\ resp.op = "get_local_roms_by_platform" =>
          \A w \in resp.concurrent :
              LET hit == {i \in 1 .. Len(resp.out) :
                             resp.out[i].file_path = w.new.file_path}
              IN  /\ \A i \in hit : resp.out[i] \in {w.old, w.new}
                  /\ (/\ w.old # None
                      /\ w.old.platform = resp.platform
                      /\ w.new.platform = resp.platform) => hit # {}
    /\ (resp.op = "get_local_rom_by_hash" /\ "concurrent" \in DOMAIN resp) =>
          \A w \in resp.concurrent :
              /\ resp.row.file_path = w.new.file_path =>
                    resp.row \in {w.old, w.new}
              /\ (/\ w.old # None
                  /\ w.old.sha1_hash = resp.sha1_hash
                  /\ w.new.sha1_hash = resp.sha1_hash) => resp.row # None

\* a listing answered after the statement of an upsert has run and before
\* its commit: the path had a row with another digest and the listing shows
\* the new row
C24_Witness ==
    /\ resp.op = "get_local_roms_by_platform"
    /\ download.pc = "commit"
    /\ \E w \in resp.concurrent :
          /\ w.old # None
          /\ w.old.sha1_hash # w.new.sha1_hash
          /\ w.old.platform = resp.platform
          /\ \E i \in 1 .. Len(resp.out) : resp.out[i] = w.new

\* the event do_scan records for the platform task t has ingested
EventOf(t) ==
    [platform |-> Head(task[t].platforms),
     files_scanned |-> Len(task[t].results), scanned_at |-> now]

\* C25: scan_history only grows, by one row at its end, and the earlier rows
\* stay as they are; a row is added exactly when do_scan completes the
\* iteration of a platform, and it carries that platform's key and the
\* number of records the scanner returned for it.
C25_EventLogAppendOnly ==
    [][/\ scan_history' # scan_history =>
             \E t \in Tasks :
                 /\ Ingested(t)
                 /\ scan_history' = Append(scan_history, EventOf(t))
                 /\ task'[t].platforms = Tail(task[t].platforms)
       /\ \A t \in Tasks :
             (/\ Ingested(t)
              /\ task'[t].pc # "ingest"
              /\ task'[t].platforms = Tail(task[t].platforms))
             => scan_history' = Append(scan_history, EventOf(t))
      ]_vars

\* a scan of psx and ps2 has ended on an index that held an event: the log
\* holds that event and, after it, psx with two files and ps2 with one
C25_Witness ==
    /\ Len(scan_history) = 3
    /\ scan_history[1].platform = "psx"
    /\ scan_history[2].platform = "psx" /\ scan_history[2].files_scanned = 2
    /\ scan_history[3].platform = "ps2" /\ scan_history[3].files_scanned = 1
    /\ \A t \in Tasks : task[t].pc = "idle"

\* C27: the step that ends do_scan, after a completed scan and after an
\* exception alike, leaves scan_in_progress false; every accepted scan ends;
\* and whenever the flag is set it is cleared later, so that the handler
\* accepts again.
C27_GuardReleased ==
    /\ [][\A t \in Tasks :
             (Unfinished(t) /\ ~Unfinished(t)') => ~scan_in_progress']_vars
    /\ \A t \in Tasks : Unfinished(t) ~> ~Unfinished(t)
    /\ scan_in_progress ~> ~scan_in_progress

\* a scan that failed in its second platform has ended: the flag is false
\* and no task is left
C27_Witness ==
    /\ resp.op = "do_scan"
    /\ resp.left = <<"ps2">>
    /\ ~scan_in_progress
    /\ \A t \in Tasks : task[t].pc = "idle"

\* the statistics an answer of the status or the statistics query holds
StatsIn(r) == IF r.op = "get_scan_status" THEN r.out.stats ELSE r.out.local

\* C26: the statistics name as last_scan the event appended last to
\* scan_history, also when several events carry the same second.
C26_LastScanIsNewest ==
    [][(/\ resp' # resp
        /\ resp'.op \in {"get_scan_status", "get_stats"}
        /\ scan_history # <<>>)
       => StatsIn(resp').last_scan = scan_history[Len(scan_history)]]_vars

\* the platforms of the scans that are executing
PlatformsBeingScanned ==
    UNION {Range(task[t].platforms) : t \in {u \in Tasks : Executing(u)}}

\* C28: no step of a scan changes the rows of a platform the scan was not
\* asked for, whatever keys the requests name.
C28_OtherPlatformsUntouched ==
    [][\A k \in PlatformKeys :
          k \notin PlatformsBeingScanned =>
              RowsOf(local_roms', k) = RowsOf(local_roms, k)]_vars

\* task t makes the step
Moved(t) ==
    \/ task'[t].pc # task[t].pc
    \/ task'[t].done # task[t].done
    \/ task'[t].platforms # task[t].platforms

\* C29: a scan works on the head of its platform list: it clears that
\* platform, scans it, upserts the records of the result one by one in
\* their order, and only when all are upserted records one event and drops
\* the platform from the list; the next platform is cleared after that, and
\* no other step of the scan writes to the index.
C29_ScanOrder ==
    [][\A t \in Tasks :
          Moved(t) =>
              LET platform == Head(task[t].platforms)
                  rest == Tail(task[t].platforms)
                  n == task[t].done
              IN  CASE task[t].pc = "clear" ->
                         /\ task'[t].pc = "scan"
                         /\ task'[t].platforms = task[t].platforms
                         /\ local_roms' = clear_platform(local_roms, platform)
                         /\ scan_history' = scan_history
                    [] task[t].pc = "scan" ->
                         /\ task'[t].pc \in {"ingest", "finally"}
                         /\ task'[t].platforms = task[t].platforms
                         /\ task'[t].pc = "ingest" => task'[t].done = 0
                         /\ local_roms' = local_roms
                         /\ scan_history' = scan_history
                    [] task[t].pc = "ingest" /\ n < Len(task[t].results) ->
                         /\ task'[t].pc = "ingest"
                         /\ task'[t].done = n + 1
                         /\ task'[t].platforms = task[t].platforms
                         /\ local_roms' =
                               add_local_rom(local_roms, task[t].results[n + 1])
                         /\ scan_history' = scan_history
                    [] task[t].pc = "ingest" /\ n = Len(task[t].results) ->
                         /\ task'[t].pc = IF rest = <<>> THEN "finally"
                                          ELSE "clear"
                         /\ task'[t].platforms = rest
                         /\ local_roms' = local_roms
                         /\ scan_history' =
                               Append(scan_history,
                                      [platform |-> platform,
                                       files_scanned |-> n,
                                       scanned_at |-> now])
                    [] OTHER ->
                         /\ local_roms' = local_roms
                         /\ scan_history' = scan_history
      ]_vars

\* a scan of psx and ps2 about to clear ps2: the two records of psx are in
\* the index, its event is the last of the log, and ps2 is what is left
C29_Witness ==
    \E t \in Tasks :
        /\ task[t].pc = "clear"
        /\ task[t].platforms = <<"ps2">>
        /\ scan_history[Len(scan_history)].platform = "psx"
        /\ scan_history[Len(scan_history)].files_scanned = 2
        /\ PlatformCount(local_roms, "psx") = 2
        /\ accepted = 1

\* C30: once a download and the scans of its platform have all ended, the
\* index holds for the downloaded path a row whose digest is that of the
\* completely downloaded file, however their steps interleaved.
C30_DownloadSurvivesScan ==
    (/\ download.pc = "done"
     /\ accepted >= 1
     /\ \A t \in Tasks : task[t].pc = "idle")
    => /\ RowAt(local_roms, download.dest) # None
       /\ RowAt(local_roms, download.dest).sha1_hash = download.content

====
